---- MODULE Spec2Model ----
(***************************************************************************)
(* A model of sketch.js, the "Zen Digit Dissolve" p5.js sketch: parameter  *)
(* parsing, the rebuild of the text particles, the per-frame breath clock  *)
(* and motion integrator, and the countdown HUD.                           *)
(*                                                                         *)
(* Numbers.  JavaScript doubles are modelled in fixed point: a real r is   *)
(* the integer r * FP, products are divided by FP (rounding down).  Times  *)
(* are integer milliseconds; a duration in seconds s is s * 1000 except    *)
(* RUN_SECONDS, which the code parses with parseInt and which stays a      *)
(* whole number of seconds.  Angles are whole quarter turns (TWO_PI = 4),  *)
(* where cos and sin are exact.  The arguments of noise() are in units of  *)
(* 1/10000, so that its scales 0.002 and 0.0013 are whole numbers.          *)
(***************************************************************************)
EXTENDS Integers, Sequences, FiniteSets, TLC

VARIABLES
  href,            \* the query parameters of window.location.href
  DISPLAY_TEXT,    \* the string shown
  RUN_SECONDS,     \* NULL, or the run time in whole seconds
  BREATH_SECONDS,  \* seconds of one inhale or one exhale, in milliseconds
  pg,              \* the offscreen buffer the text was last rasterized into
  particles,       \* the particle list
  lastBuildKey,    \* the build key of the last buildTextParticles
  startMillis,     \* millis() at setup
  width, height,   \* the canvas size
  now,             \* the value millis() returns
  rng,             \* the state of the generator behind random()
  font,            \* how the browser's font inks a glyph
  noiseSeed,       \* the seed of the generator behind noise()
  started,         \* setup has run
  lastOp,          \* the handler that ran last
  built,           \* how often the last handler ran buildTextParticles
  rebuiltSame,     \* the last handler rebuilt for the pair of the previous build
  pending,         \* events, pair changes and builds since the last render
  nEvents,         \* resize and 'r' events so far
  frame,           \* what the last draw rendered
  probe            \* input and output of a function applied on its own

vars == <<href, DISPLAY_TEXT, RUN_SECONDS, BREATH_SECONDS, pg, particles,
          lastBuildKey, startMillis, width, height, now, rng, font, noiseSeed,
          started, lastOp, built, rebuiltSame, pending, nEvents, frame, probe>>

progVars == <<href, DISPLAY_TEXT, RUN_SECONDS, BREATH_SECONDS, pg, particles,
              lastBuildKey, startMillis, width, height, now, rng, font, noiseSeed,
              started, lastOp, built, rebuiltSame, pending, nEvents, frame>>

-----------------------------------------------------------------------------
(* Fixed point and the library functions the sketch calls.                  *)

FP == 10 * 100

Min(a, b) == IF a < b THEN a ELSE b
Max(a, b) == IF a > b THEN a ELSE b

\* p5 lerp(start, stop, amt) = amt * (stop - start) + start, amt in fixed point
Lerp(start, stop, amt) == start + ((stop - start) * amt) \div FP

\* p5 map(v, 0, 1, lo, hi) for v in fixed point
Map01(v, lo, hi) == lo + (v * (hi - lo)) \div FP

TWO_PI == 4
PI == 2
Cos(q) == CASE q % TWO_PI = 0 -> 1
            [] q % TWO_PI = 1 -> 0
            [] q % TWO_PI = 2 -> -1
            [] OTHER -> 0
Sin(q) == CASE q % TWO_PI = 0 -> 0
            [] q % TWO_PI = 1 -> 1
            [] q % TWO_PI = 2 -> 0
            [] OTHER -> -1

\* random(): the next state of the generator and the value in [0,1) it yields
RngStates == 0..7
RngNext(s) == (5 * s + 3) % 8
RngValue(s) == ((s % 4) * FP) \div 4

\* noise(x, y, z): a value in [0,1) fixed by the seed and the arguments
Noise(seed, x, y, z) ==
  (((seed + (x \div 3) + 2 * (y \div 3) + (z \div 50)) % 4) * FP) \div 4

\* nf(n, 2): the decimal digits of n, padded with zeros to at least two
nf2(n) == IF Len(ToString(n)) < 2 THEN "0" \o ToString(n) ELSE ToString(n)

-----------------------------------------------------------------------------
(* Constants of the sketch.                                                 *)

NULL == -1
DefaultText == "56"
DefaultBreath == 8000
BG == 0
FG == 255
SAMPLE_STEP == 6
TARGET_SCALE == 780
MARGIN_FRAC == 120
EXHALE_SPREAD == 28
EXHALE_JITTER == 900
INHALE_TIGHTNESS == 180
DRIFT_NOISE_STRENGTH == 900
DRIFT_NOISE_SCALE == 20
FlowScale == 13
HUD_FADE == 140
MinTextSize == 12

-----------------------------------------------------------------------------
(* Bounds of the model.                                                     *)

MaxWin == 13        \* the largest window width
MaxFrames == 3      \* the number of frames drawn
MaxEvents == 2      \* the number of resize and 'r' events
MaxSeed == 1        \* noise seeds 0..MaxSeed
FrameMillis == 1000 \* the time between two frames

\* window sizes <<windowWidth, windowHeight>>
WindowSizes == {<<MaxWin - 6, 5>>, <<MaxWin, 7>>}
Seeds == 0..MaxSeed
RngSeeds == {0, 1}
Keys == {"r", "x"}

\* a query parameter: absent, or present with its text / its parsed number
NoParam == [present |-> FALSE, finite |-> FALSE, val |-> 0, text |-> <<>>]
NaNParam == [present |-> TRUE, finite |-> FALSE, val |-> 0, text |-> <<>>]
NumParam(v) == [present |-> TRUE, finite |-> TRUE, val |-> v, text |-> <<>>]
TextParam(s) == [present |-> TRUE, finite |-> FALSE, val |-> 0, text |-> s]

\* the query strings: none; ?num=%20&dur=x&breath=0.5; ?num=%207%20&dur=2&breath=1
Hrefs ==
  { [num |-> NoParam, dur |-> NoParam, breath |-> NoParam],
    [num |-> TextParam(<<" ">>), dur |-> NaNParam, breath |-> NumParam(500)],
    [num |-> TextParam(<<" ", "7", " ">>), dur |-> NumParam(2),
     breath |-> NumParam(1000)] }

-----------------------------------------------------------------------------
(* The offscreen buffer.  The glyphs are inked by the browser: the text is  *)
(* laid out as a box of the text's width and the text size's height,        *)
(* centred on the canvas, and the font decides which pixels of the box are  *)
(* white: all of them (with an antialiased grey column at either end), only *)
(* the odd columns (strokes one pixel wide), or none (characters without    *)
(* ink that trim() keeps, such as U+200B).                                  *)

Fonts == {"solid", "stripes", "blank"}

NoGraphics == [width |-> 0, height |-> 0, text |-> "", ts |-> 0, wText |-> 0]

\* pg.textWidth(str) at text size ts: half an em for each character
TextWidth(str, ts) == (Len(str) * ts) \div 2

InBox(g, x, y) ==
  /\ 2 * x * FP >= g.width * FP - g.wText
  /\ 2 * x * FP <= g.width * FP + g.wText
  /\ 2 * y * FP >= g.height * FP - g.ts
  /\ 2 * y * FP <= g.height * FP + g.ts

OnEdge(g, x) ==
  \/ 2 * (x - 1) * FP < g.width * FP - g.wText
  \/ 2 * (x + 1) * FP > g.width * FP + g.wText

\* the pixel at (x, y) as <<r, g, b, a>>
PixelAt(g, f, x, y) ==
  IF g.text = "" \/ ~InBox(g, x, y) THEN <<BG, BG, BG, 255>>
  ELSE CASE f = "solid" /\ ~OnEdge(g, x) -> <<FG, FG, FG, 255>>
         [] f = "solid" /\ OnEdge(g, x) -> <<160, 160, 160, 255>>
         [] f = "stripes" /\ x % 2 = 1 -> <<FG, FG, FG, 255>>
         [] OTHER -> <<BG, BG, BG, 255>>

\* pg.pixels[i]
Pixels(g, f, i) ==
  PixelAt(g, f, (i \div 4) % g.width, (i \div 4) \div g.width)[(i % 4) + 1]

-----------------------------------------------------------------------------
(* buildTextParticles and makeParticle.                                     *)

BuildKey(text, w, h) == text \o "|" \o ToString(w) \o "x" \o ToString(h)

\* the text size and the text's width after the fit to the canvas
Layout(text, w, h) ==
  LET minDim == Min(w, h)
      margin == (minDim * MARGIN_FRAC)
      targetH == (minDim * TARGET_SCALE)
      ts0 == Max(MinTextSize * FP, targetH)
      availW == w * FP - margin * 2
      wText0 == TextWidth(text, ts0)
      ts == IF wText0 > availW
              THEN Max(MinTextSize * FP, (ts0 * availW) \div wText0)
              ELSE ts0
  IN  [width |-> w, height |-> h, text |-> text, ts |-> ts,
       wText |-> TextWidth(text, ts)]

\* makeParticle(x, y), with random() in state s; it draws four numbers
makeParticle(x, y, s) ==
  LET s1 == RngNext(s)
      s2 == RngNext(s1)
      s3 == RngNext(s2)
      jitter == Map01(RngValue(s), -2 * FP, 2 * FP)
  IN  [home |-> [x |-> x, y |-> y],
       pos |-> [x |-> x * FP + jitter, y |-> y * FP + jitter],
       size |-> Map01(RngValue(s1), 1600, 2400),
       theta |-> (RngValue(s2) * TWO_PI) \div FP,
       rand |-> RngValue(s3)]

IsLitDim(g, f, x, y) ==
  LET idx == 4 * (y * g.width + x)
      r == Pixels(g, f, idx + 0)
      gr == Pixels(g, f, idx + 1)
      b == Pixels(g, f, idx + 2)
      a == Pixels(g, f, idx + 3)
  IN  a > 10 /\ (r + gr + b) > 400

IsLit(g, f, x, y) ==
  LET idx == 4 * (y * g.width + x)
      r == Pixels(g, f, idx + 0)
      gr == Pixels(g, f, idx + 1)
      b == Pixels(g, f, idx + 2)
      a == Pixels(g, f, idx + 3)
  IN  a > 10 /\ (r + gr + b) > 500

\* the two sampling loops, from (x, y) on, with the list built so far
RECURSIVE SampleFrom(_, _, _, _, _, _)
SampleFrom(g, f, x, y, s, acc) ==
  IF y >= g.height THEN [particles |-> acc, rng |-> s]
  ELSE IF x >= g.width THEN SampleFrom(g, f, 0, y + SAMPLE_STEP, s, acc)
  ELSE IF IsLit(g, f, x, y)
    THEN SampleFrom(g, f, x + SAMPLE_STEP, y,
                    RngNext(RngNext(RngNext(RngNext(s)))),
                    Append(acc, makeParticle(x, y, s)))
    ELSE SampleFrom(g, f, x + SAMPLE_STEP, y, s, acc)

\* the list buildTextParticles samples into: a new, empty one
FreshListKeepsOld(old) == old

FreshList(old) == <<>>

\* buildTextParticles(): the new pg, particles, lastBuildKey and rng
buildTextParticlesNoKey(text, w, h, f, s, old) ==
  LET g == Layout(text, w, h)
      sampled == SampleFrom(g, f, 0, 0, s, FreshList(old))
  IN  [pg |-> g, particles |-> sampled.particles, rng |-> sampled.rng,
       lastBuildKey |-> ""]

buildTextParticles(text, w, h, f, s, old) ==
  LET g == Layout(text, w, h)
      sampled == SampleFrom(g, f, 0, 0, s, FreshList(old))
  IN  [pg |-> g, particles |-> sampled.particles, rng |-> sampled.rng,
       lastBuildKey |-> BuildKey(text, w, h)]

-----------------------------------------------------------------------------
(* The breath clock, the flow field and the motion integrator of draw.      *)

\* tri as draw computes it from t = millis() and BREATH_SECONDS (both in ms)
TriWaveUnfolded(t, breath) ==
  LET period == breath * 2
      phase == ((t % period) * FP) \div period
  IN  phase * 2

TriWave(t, breath) ==
  LET period == breath * 2
      phase == ((t % period) * FP) \div period
  IN  IF phase < FP \div 2 THEN phase * 2 ELSE 2 * FP - phase * 2

Exhale(tri) == FP - tri

\* flowForce(x, y, t): a vector, in fixed point
flowForce(seed, x, y, t) ==
  LET nx == Noise(seed, x * FlowScale, y * FlowScale, (t * 7) \div 100)
      ny == Noise(seed, (x + 999) * FlowScale, (y - 777) * FlowScale,
                  (t * 7) \div 100)
      ang == Map01(nx, -PI, PI)
      magnitude == Map01(ny, 200, FP)
  IN  [x |-> Cos(ang) * magnitude, y |-> Sin(ang) * magnitude]

\* drift of draw: the offset of the target from home, in fixed point
Drift(p, t, exhale, seed) ==
  LET n == Noise(seed, p.home.x * DRIFT_NOISE_SCALE,
                 p.home.y * DRIFT_NOISE_SCALE, (t * 15) \div 100)
      ang == p.theta + (n * TWO_PI) \div FP
      spread == EXHALE_SPREAD * (400 + (EXHALE_JITTER * p.rand) \div FP)
      f == flowForce(seed, p.home.x, p.home.y, t)
      k == (DRIFT_NOISE_STRENGTH * exhale) \div FP
  IN  [x |-> Cos(ang) * ((spread * exhale) \div FP) + (f.x * k) \div FP,
       y |-> Sin(ang) * ((spread * exhale) \div FP) + (f.y * k) \div FP]

EasingSwapped(exhale) == Lerp(80, FP - INHALE_TIGHTNESS, exhale)

Easing(exhale) == Lerp(FP - INHALE_TIGHTNESS, 80, exhale)

\* the pos of p after one pass of the loop body of draw
MovedPos(p, t, exhale, seed) ==
  LET d == Drift(p, t, exhale, seed)
  IN  [x |-> Lerp(p.pos.x, p.home.x * FP + d.x, Easing(exhale)),
       y |-> Lerp(p.pos.y, p.home.y * FP + d.y, Easing(exhale))]

MoveParticleSeeding(p, t, exhale, seed) ==
  [p EXCEPT !.pos = MovedPos(p, t, exhale, seed),
            !.theta = (p.theta + 1) % TWO_PI]

MoveParticle(p, t, exhale, seed) ==
  [p EXCEPT !.pos = MovedPos(p, t, exhale, seed)]

-----------------------------------------------------------------------------
(* The countdown HUD.                                                       *)

\* remaining of draw, in milliseconds
RemainingUnclamped(run, elapsed) == run * 1000 - elapsed

Remaining(run, elapsed) == Max(0, run * 1000 - elapsed)

\* txt of drawCountdown(remainingSec)
drawCountdownNoWrap(remaining) ==
  LET mm == remaining \div 60000
      ss == remaining \div 1000
  IN  nf2(mm) \o ":" \o nf2(ss)

drawCountdown(remaining) ==
  LET mm == remaining \div 60000
      ss == (remaining % 60000) \div 1000
  IN  nf2(mm) \o ":" \o nf2(ss)

-----------------------------------------------------------------------------
(* The state after the script is loaded, and the handlers.                  *)

NoFrame == [circles |-> <<>>, hud |-> "none", tri |-> 0, events |-> 0,
            changes |-> 0, keys |-> 0, builds |-> 0, after |-> 0, moved |-> 0]
NoPending == [events |-> 0, changes |-> 0, keys |-> 0, builds |-> 0, after |-> 0]
NoProbe == [fn |-> "none"]

\* the state after the script is loaded, for the query strings, random()
\* states, fonts and noise seeds given
Loaded(hrefs, rngs, fonts, seeds) ==
  /\ href \in hrefs
  /\ DISPLAY_TEXT = DefaultText
  /\ RUN_SECONDS = NULL
  /\ BREATH_SECONDS = DefaultBreath
  /\ pg = NoGraphics
  /\ particles = <<>>
  /\ lastBuildKey = ""
  /\ startMillis = 0
  /\ width = 0 /\ height = 0
  /\ now = 0
  /\ rng \in rngs
  /\ font \in fonts
  /\ noiseSeed \in seeds
  /\ started = FALSE
  /\ lastOp = "load"
  /\ built = 0
  /\ rebuiltSame = FALSE
  /\ pending = NoPending
  /\ nEvents = 0
  /\ frame = NoFrame

Init == Loaded(Hrefs, RngSeeds, Fonts, Seeds) /\ probe = NoProbe

\* String.prototype.trim on a sequence of characters, and the string of it
RECURSIVE TrimLeft(_)
TrimLeft(cs) == IF cs # <<>> /\ Head(cs) = " " THEN TrimLeft(Tail(cs)) ELSE cs
RECURSIVE TrimRight(_)
TrimRight(cs) ==
  IF cs # <<>> /\ cs[Len(cs)] = " " THEN TrimRight(SubSeq(cs, 1, Len(cs) - 1))
  ELSE cs
Trim(cs) == TrimRight(TrimLeft(cs))
RECURSIVE Str(_)
Str(cs) == IF cs = <<>> THEN "" ELSE Head(cs) \o Str(Tail(cs))

\* getParams(): the configuration after it, from the one before it
getParams(u, text, run, breath) ==
  [DISPLAY_TEXT |->
     IF u.num.present /\ Str(Trim(u.num.text)) # ""
       THEN Str(Trim(u.num.text)) ELSE text,
   RUN_SECONDS |->
     IF u.dur.present /\ u.dur.finite /\ u.dur.val > 0 THEN u.dur.val ELSE run,
   BREATH_SECONDS |->
     IF u.breath.present /\ u.breath.finite /\ u.breath.val > 500
       THEN u.breath.val ELSE breath]

\* the ghost variables after a handler that ran buildTextParticles n times
\* and left the canvas and the text as the primed variables say
Note(op, n) ==
  /\ lastOp' = op
  /\ built' = n
  /\ rebuiltSame' = (n > 0 /\ pg # NoGraphics /\ pg.text = DISPLAY_TEXT'
                     /\ pg.width = width' /\ pg.height = height')

Setup ==
  /\ ~started
  /\ \E size \in WindowSizes :
       LET ww == size[1]
           wh == size[2]
           cfg == getParams(href, DISPLAY_TEXT, RUN_SECONDS, BREATH_SECONDS)
           b == buildTextParticles(cfg.DISPLAY_TEXT, ww, wh, font, rng, particles)
       IN  /\ DISPLAY_TEXT' = cfg.DISPLAY_TEXT
           /\ RUN_SECONDS' = cfg.RUN_SECONDS
           /\ BREATH_SECONDS' = cfg.BREATH_SECONDS
           /\ width' = ww /\ height' = wh
           /\ startMillis' = now
           /\ pg' = b.pg /\ particles' = b.particles /\ rng' = b.rng
           /\ lastBuildKey' = b.lastBuildKey
  /\ started' = TRUE
  /\ pending' = NoPending
  /\ UNCHANGED <<href, now, font, noiseSeed, nEvents, frame, probe>>
  /\ Note("setup", 1)

\* an event between two frames that ran buildTextParticles n times: the
\* events since the last render, those that changed the pair of text and
\* size, those that changed lastBuildKey, the builds, and the builds from
\* the first event on that changed the pair
Event(n) ==
  LET changed == DISPLAY_TEXT' # DISPLAY_TEXT \/ width' # width
                   \/ height' # height
  IN  /\ nEvents' = nEvents + 1
      /\ pending' = [events |-> pending.events + 1,
                     changes |-> pending.changes + IF changed THEN 1 ELSE 0,
                     keys |-> pending.keys +
                       IF lastBuildKey' # lastBuildKey THEN 1 ELSE 0,
                     builds |-> pending.builds + n,
                     after |-> IF pending.changes > 0 \/ changed
                                 THEN pending.after + n ELSE 0]

WindowResizedViaSetup ==
  /\ started
  /\ nEvents < MaxEvents
  /\ \E size \in WindowSizes :
       LET ww == size[1]
           wh == size[2]
           cfg == getParams(href, DISPLAY_TEXT, RUN_SECONDS, BREATH_SECONDS)
           b == buildTextParticles(cfg.DISPLAY_TEXT, ww, wh, font, rng, particles)
       IN  /\ DISPLAY_TEXT' = cfg.DISPLAY_TEXT
           /\ RUN_SECONDS' = cfg.RUN_SECONDS
           /\ BREATH_SECONDS' = cfg.BREATH_SECONDS
           /\ width' = ww /\ height' = wh
           /\ pg' = b.pg /\ particles' = b.particles /\ rng' = b.rng
           /\ lastBuildKey' = b.lastBuildKey
  /\ UNCHANGED <<href, startMillis, now, font, noiseSeed, started, frame, probe>>
  /\ Event(1)
  /\ Note("windowResized", 1)

WindowResized ==
  /\ started
  /\ nEvents < MaxEvents
  /\ \E size \in WindowSizes :
       LET ww == size[1]
           wh == size[2]
           b == buildTextParticles(DISPLAY_TEXT, ww, wh, font, rng, particles)
       IN  /\ width' = ww /\ height' = wh
           /\ pg' = b.pg /\ particles' = b.particles /\ rng' = b.rng
           /\ lastBuildKey' = b.lastBuildKey
  /\ UNCHANGED <<href, DISPLAY_TEXT, RUN_SECONDS, BREATH_SECONDS, startMillis,
                 now, font, noiseSeed, started, frame, probe>>
  /\ Event(1)
  /\ Note("windowResized", 1)

\* String(floor(random(1, 9999))) with random() yielding u
RandomNumber(u) == ToString((u * (9999 - 1) + 1 * FP) \div FP)

KeyTyped ==
  /\ started
  /\ \E key \in Keys :
       IF key = "r"
         THEN /\ nEvents < MaxEvents
              /\ LET text == RandomNumber(RngValue(rng))
                     b == buildTextParticles(text, width, height, font,
                                             RngNext(rng), particles)
                 IN  /\ DISPLAY_TEXT' = text
                     /\ pg' = b.pg /\ particles' = b.particles /\ rng' = b.rng
                     /\ lastBuildKey' = b.lastBuildKey
              /\ UNCHANGED <<width, height>>
              /\ Event(1)
              /\ Note("keyTyped", 1)
         ELSE /\ UNCHANGED <<DISPLAY_TEXT, pg, particles, rng, lastBuildKey,
                             width, height, pending, nEvents>>
              /\ Note("keyTyped", 0)
  /\ UNCHANGED <<href, RUN_SECONDS, BREATH_SECONDS, startMillis, now, font,
                 noiseSeed, started, frame, probe>>

\* the test of draw for a rebuild
NeedsRebuildAlways(buildKey, last) == TRUE

NeedsRebuild(buildKey, last) == buildKey # last

\* the loop of draw over the particles
Animate(ps, t, exhale, seed) ==
  IF ps = <<>> THEN <<>>
  ELSE [i \in 1..Len(ps) |-> MoveParticle(ps[i], t, exhale, seed)]

\* the circles draw paints for the particles ps
Circles(ps, tri) ==
  IF ps = <<>> THEN <<>>
  ELSE [i \in 1..Len(ps) |->
          [x |-> ps[i].pos.x, y |-> ps[i].pos.y, d |-> ps[i].size,
           alpha |-> 200 * FP + 55 * tri]]

\* draw() with millis() = t
drawFrame(t) ==
  LET buildKey == BuildKey(DISPLAY_TEXT, width, height)
      rebuild == NeedsRebuild(buildKey, lastBuildKey)
      b == IF rebuild
             THEN buildTextParticles(DISPLAY_TEXT, width, height, font, rng,
                                     particles)
             ELSE [pg |-> pg, particles |-> particles, rng |-> rng,
                   lastBuildKey |-> lastBuildKey]
      n == IF rebuild THEN 1 ELSE 0
      tri == TriWave(t, BREATH_SECONDS)
      exhale == Exhale(tri)
      ps == Animate(b.particles, t, exhale, noiseSeed)
      hud == IF RUN_SECONDS # NULL
               THEN drawCountdown(Remaining(RUN_SECONDS, t - startMillis))
               ELSE "none"
  IN  /\ now' = t
      /\ pg' = b.pg /\ rng' = b.rng /\ lastBuildKey' = b.lastBuildKey
      /\ particles' = ps
      /\ frame' = [circles |-> Circles(ps, tri), hud |-> hud, tri |-> tri,
                   events |-> pending.events, changes |-> pending.changes,
                   keys |-> pending.keys, builds |-> pending.builds + n,
                   after |-> IF pending.changes > 0 THEN pending.after + n
                             ELSE 0,
                   moved |-> Cardinality({i \in 1..Len(ps) :
                                            ps[i].pos # b.particles[i].pos})]
      /\ pending' = NoPending
      /\ UNCHANGED <<href, DISPLAY_TEXT, RUN_SECONDS, BREATH_SECONDS,
                     startMillis, width, height, font, noiseSeed, started,
                     nEvents, probe>>
      /\ Note("draw", n)

\* a draw that stops the animation once the countdown is at zero
DrawHalting ==
  /\ started
  /\ now < MaxFrames * FrameMillis
  /\ IF RUN_SECONDS # NULL
        /\ Remaining(RUN_SECONDS, now + FrameMillis - startMillis) = 0
       THEN /\ now' = now + FrameMillis
            /\ pending' = NoPending
            /\ UNCHANGED <<href, DISPLAY_TEXT, RUN_SECONDS, BREATH_SECONDS, pg,
                           particles, lastBuildKey, startMillis, width, height,
                           rng, font, noiseSeed, started, nEvents, frame,
                           probe>>
            /\ Note("draw", 0)
       ELSE drawFrame(now + FrameMillis)

Draw ==
  /\ started
  /\ now < MaxFrames * FrameMillis
  /\ drawFrame(now + FrameMillis)

Next == Setup \/ Draw \/ WindowResized \/ KeyTyped

Spec == Init /\ [][Next]_vars

-----------------------------------------------------------------------------
(* The breath clock, the motion integrator and the countdown applied on    *)
(* their own, to inputs the frames of Spec do not reach.                    *)

MaxQuarters == 8     \* times up to MaxQuarters quarters of a half-period
MaxDisp == 3         \* prior displacements up to 4 * MaxDisp pixels
MaxRunMinutes == 100 \* run times up to MaxRunMinutes + 1 minutes

NoHref == [num |-> NoParam, dur |-> NoParam, breath |-> NoParam]
Idle == Loaded({NoHref}, {0}, {"solid"}, {0})

\* half-periods BREATH_SECONDS can hold (getParams: above 0.5 s), in ms
BreathInputs == {501, 750, 1000, 6000, DefaultBreath}
TimeInputs(h) ==
  {0, 1, h - 1, h, h + 1, 2 * h - 1, 2 * h, 2 * h + 1, 3 * h, 4 * h}
    \cup {(k * h) \div 4 : k \in 0..MaxQuarters}

InitBreath ==
  /\ Idle
  /\ probe \in {[fn |-> "tri", h |-> h, t |-> t, done |-> FALSE, tri |-> 0] :
                  h \in BreathInputs, t \in UNION {TimeInputs(g) : g \in BreathInputs}}
  /\ probe.t \in TimeInputs(probe.h)

ApplyTri ==
  /\ probe.fn = "tri" /\ ~probe.done
  /\ probe' = [probe EXCEPT !.done = TRUE, !.tri = TriWave(probe.t, probe.h)]
  /\ UNCHANGED progVars

SpecBreath == InitBreath /\ [][ApplyTri]_vars

\* prior displacements pos - home, in fixed point: 0, 0.5, 1, 4 and
\* 4 * MaxDisp pixels either way
DispInputs ==
  {0} \cup {sgn * m * (FP \div 2) : sgn \in {-1, 1}, m \in {1, 2, 8, 8 * MaxDisp}}

ProbeParticle(dx, dy, theta, rand) ==
  [home |-> [x |-> 6, y |-> 0],
   pos |-> [x |-> 6 * FP + dx, y |-> dy],
   size |-> 2 * FP, theta |-> theta, rand |-> rand]

InitMotion ==
  /\ Idle
  /\ probe \in {[fn |-> "move", p |-> ProbeParticle(dx, dy, theta, rand),
                 seed |-> seed, t |-> FrameMillis, done |-> FALSE,
                 at0 |-> [x |-> 0, y |-> 0], at1 |-> [x |-> 0, y |-> 0]] :
                  dx \in DispInputs, dy \in DispInputs, theta \in 0..3,
                  rand \in {RngValue(r) : r \in RngStates}, seed \in 0..3}
  /\ probe.p.pos # [x |-> 6 * FP, y |-> 0]

\* one pass of the loop body of draw at exhale = 0 and one at exhale = 1
ApplyMove ==
  /\ probe.fn = "move" /\ ~probe.done
  /\ probe' = [probe EXCEPT
                 !.done = TRUE,
                 !.at0 = MoveParticle(probe.p, probe.t, 0, probe.seed).pos,
                 !.at1 = MoveParticle(probe.p, probe.t, FP, probe.seed).pos]
  /\ UNCHANGED progVars

SpecMotion == InitMotion /\ [][ApplyMove]_vars

\* run times ?dur= can set, in seconds, and elapsed times, in milliseconds
RunInputs ==
  {1, 10, 59, 60, 61, 600, MaxRunMinutes * 60 - 1, MaxRunMinutes * 60,
   MaxRunMinutes * 60 + 60}
ElapsedInputs(run) ==
  {0, 1, 999, 1000, 3000, 3001, 9999, 10000, 10001, run * 1000 - 1,
   run * 1000, run * 1000 + 1, run * 1000 + 60000}

InitHud ==
  /\ Idle
  /\ probe \in {[fn |-> "hud", run |-> run, elapsed |-> e, done |-> FALSE,
                 remaining |-> 0, txt |-> ""] :
                  run \in RunInputs, e \in UNION {ElapsedInputs(r) : r \in RunInputs}}
  /\ probe.elapsed \in ElapsedInputs(probe.run)

\* remaining of draw and txt of drawCountdown for RUN_SECONDS = run
ApplyHud ==
  /\ probe.fn = "hud" /\ ~probe.done
  /\ probe' = [probe EXCEPT
                 !.done = TRUE,
                 !.remaining = Remaining(probe.run, probe.elapsed),
                 !.txt = drawCountdown(Remaining(probe.run, probe.elapsed))]
  /\ UNCHANGED progVars

SpecHud == InitHud /\ [][ApplyHud]_vars

-----------------------------------------------------------------------------
(* The properties.                                                          *)

\* the grid pixels of the buffer g that are lit: alpha above 10 and
\* r + g + b above 500
LitGrid(g, f) ==
  {xy \in (0..(g.width - 1)) \X (0..(g.height - 1)) :
     /\ xy[1] % SAMPLE_STEP = 0 /\ xy[2] % SAMPLE_STEP = 0
     /\ PixelAt(g, f, xy[1], xy[2])[4] > 10
     /\ PixelAt(g, f, xy[1], xy[2])[1] + PixelAt(g, f, xy[1], xy[2])[2]
          + PixelAt(g, f, xy[1], xy[2])[3] > 500}

Homes(ps) == {<<ps[i].home.x, ps[i].home.y>> : i \in 1..Len(ps)}

\* C1 as stated: no handler runs buildTextParticles while the pair of
\* DISPLAY_TEXT and canvas size equals the pair of the previous build.
C1_NeverRebuildsUnchanged == ~rebuiltSame

\* C1 as amended: draw never runs buildTextParticles while the pair equals
\* the pair of the previous build; windowResized rebuilds every time, also
\* for unchanged dimensions.
C1_DrawNeverRebuildsUnchanged ==
  /\ lastOp = "draw" => ~rebuiltSame
  /\ lastOp = "windowResized" => built = 1

\* C1 witness: a frame drawn after an event that left the pair as it was,
\* with no rebuild in draw.
C1_Witness ==
  lastOp = "draw" /\ built = 0 /\ frame.events = 1 /\ frame.changes = 0

C3_RenderedSetIsCurrent ==
  lastOp = "draw" =>
    /\ lastBuildKey = DISPLAY_TEXT \o "|" \o ToString(width) \o "x"
                        \o ToString(height)
    /\ pg = Layout(DISPLAY_TEXT, width, height)
    /\ Homes(particles) = LitGrid(pg, font)
    /\ Len(particles) = Cardinality(LitGrid(pg, font))
    /\ Len(frame.circles) = Len(particles)

\* C3 witness: a frame drawn after the pair changed, with particles.
C3_Witness ==
  lastOp = "draw" /\ frame.changes >= 1 /\ particles # <<>>

\* C4 as stated: after setup no step changes DISPLAY_TEXT, RUN_SECONDS or
\* BREATH_SECONDS.
C4_ConfigurationImmutable ==
  [][started => /\ DISPLAY_TEXT' = DISPLAY_TEXT
                /\ RUN_SECONDS' = RUN_SECONDS
                /\ BREATH_SECONDS' = BREATH_SECONDS]_vars

\* C4 as amended: after setup no step changes RUN_SECONDS or
\* BREATH_SECONDS, and only keyTyped('r') changes DISPLAY_TEXT.
C4_OnlyKeyTypedChangesText ==
  [][started => /\ RUN_SECONDS' = RUN_SECONDS
                /\ BREATH_SECONDS' = BREATH_SECONDS
                /\ (DISPLAY_TEXT' # DISPLAY_TEXT
                      => lastOp' = "keyTyped" /\ built' = 1)]_vars

\* C4 witness: 'r' was typed in a run with a duration and a breath from the
\* query string, and the text is no longer the configured one.
C4_Witness ==
  /\ lastOp = "keyTyped" /\ built = 1
  /\ DISPLAY_TEXT # getParams(href, DefaultText, NULL, DefaultBreath).DISPLAY_TEXT
  /\ RUN_SECONDS # NULL /\ BREATH_SECONDS # DefaultBreath

\* C5: for a half-period above 0.5 s and any time t, tri and exhale are in
\* [0,1], and tri is 0 at t = 0, 1 at t = h and 0 at t = 2h.
C5_TriangleWave ==
  probe.fn = "tri" /\ probe.done =>
    /\ 0 <= probe.tri /\ probe.tri <= FP
    /\ 0 <= Exhale(probe.tri) /\ Exhale(probe.tri) <= FP
    /\ probe.t = 0 => probe.tri = 0
    /\ probe.t = probe.h => probe.tri = FP
    /\ probe.t = 2 * probe.h => probe.tri = 0

\* C5 witness: tri computed at t = h, where it is 1.
C5_Witness ==
  probe.fn = "tri" /\ probe.done /\ probe.t = probe.h /\ probe.tri = FP

Dist2(pos, home) ==
  (pos.x - home.x * FP) * (pos.x - home.x * FP)
    + (pos.y - home.y * FP) * (pos.y - home.y * FP)

\* the prior displacement of the probe's particle does not point against
\* its drift at exhale = 1
AlongDrift(q) ==
  LET d == Drift(q.p, q.t, FP, q.seed)
  IN  (q.p.pos.x - q.p.home.x * FP) * d.x
        + (q.p.pos.y - q.p.home.y * FP) * d.y >= 0

\* C6 as stated: from any non-zero prior displacement, a step at exhale = 0
\* ends strictly closer to home than a step at exhale = 1.
C6_InhaleStepCloser ==
  probe.fn = "move" /\ probe.done =>
    Dist2(probe.at0, probe.p.home) < Dist2(probe.at1, probe.p.home)

\* C6 as amended: the same, for a prior displacement that does not point
\* against the drift of the exhale = 1 step.
C6_InhaleStepCloserAlongDrift ==
  probe.fn = "move" /\ probe.done /\ AlongDrift(probe) =>
    Dist2(probe.at0, probe.p.home) < Dist2(probe.at1, probe.p.home)

\* C6 witness: both steps taken from a displacement along the drift.
C6_Witness ==
  /\ probe.fn = "move" /\ probe.done /\ AlongDrift(probe)
  /\ Dist2(probe.at0, probe.p.home) > 0

TwoDigits(n) == ToString(n \div 10) \o ToString(n % 10)

\* what the HUD is to show for run seconds configured and elapsed ms gone
HudRemaining(q) ==
  IF q.run * 1000 > q.elapsed THEN q.run * 1000 - q.elapsed ELSE 0
HudMinutes(q) == HudRemaining(q) \div 60000
HudSeconds(q) == (HudRemaining(q) \div 1000) % 60

\* C7 as amended: remaining is max(0, duration - elapsed), never negative,
\* and is rendered as the minutes with at least two digits (more from 100
\* minutes on), a colon and the seconds 00..59 with two digits; 10 s and
\* 3 s elapsed render 00:07, and elapsed >= duration renders 00:00.
C7_CountdownText ==
  probe.fn = "hud" /\ probe.done =>
    /\ probe.remaining = HudRemaining(probe)
    /\ probe.remaining >= 0
    /\ HudSeconds(probe) \in 0..59
    /\ probe.txt = (IF HudMinutes(probe) < 100 THEN TwoDigits(HudMinutes(probe))
                    ELSE ToString(HudMinutes(probe)))
                     \o ":" \o TwoDigits(HudSeconds(probe))
    /\ probe.run = 10 /\ probe.elapsed = 3000 => probe.txt = "00:07"
    /\ probe.elapsed >= probe.run * 1000 => probe.txt = "00:00"

\* C7 as stated: as above, with the minutes always rendered with two digits.
C7_CountdownTextTwoDigitMinutes ==
  probe.fn = "hud" /\ probe.done =>
    /\ probe.remaining = HudRemaining(probe)
    /\ probe.remaining >= 0
    /\ probe.txt = TwoDigits(HudMinutes(probe) % 100) \o ":"
                     \o TwoDigits(HudSeconds(probe))
    /\ Len(probe.txt) = 5

\* C7 witness: the countdown of 10 s after 3 s.
C7_Witness ==
  /\ probe.fn = "hud" /\ probe.done
  /\ probe.run = 10 /\ probe.elapsed = 3000 /\ probe.txt = "00:07"

\* what C8 says of every build but the non-empty result: each particle's
\* home is a lit pixel of the sampling grid inside the canvas, and there is
\* exactly one particle for each lit grid pixel.
SampledFromGrid ==
  /\ \A i \in 1..Len(particles) :
       /\ particles[i].home.x % SAMPLE_STEP = 0
       /\ particles[i].home.y % SAMPLE_STEP = 0
       /\ 0 <= particles[i].home.x /\ particles[i].home.x < width
       /\ 0 <= particles[i].home.y /\ particles[i].home.y < height
       /\ PixelAt(pg, font, particles[i].home.x, particles[i].home.y)[4] > 10
       /\ PixelAt(pg, font, particles[i].home.x, particles[i].home.y)[1]
            + PixelAt(pg, font, particles[i].home.x, particles[i].home.y)[2]
            + PixelAt(pg, font, particles[i].home.x, particles[i].home.y)[3]
            > 500
  /\ \A xy \in LitGrid(pg, font) :
       Cardinality({i \in 1..Len(particles) :
                      <<particles[i].home.x, particles[i].home.y>> = xy}) = 1

\* C8 as stated: a build for a non-empty text yields a non-empty particle
\* set, sampled as above.
C8_SampledNonEmpty ==
  built > 0 /\ DISPLAY_TEXT # "" => particles # <<>> /\ SampledFromGrid

\* C8 as amended: a build for a non-empty text yields a particle set,
\* possibly empty, sampled as above.
C8_Sampled ==
  built > 0 /\ DISPLAY_TEXT # "" => SampledFromGrid

\* C8 witness: a build for a non-empty text that made several particles.
C8_Witness ==
  built > 0 /\ DISPLAY_TEXT # "" /\ Len(particles) >= 2

C10_DrawMovesOnlyPos ==
  [][built' = 0 =>
       /\ Len(particles') = Len(particles)
       /\ \A i \in 1..Len(particles) :
            /\ particles'[i].home = particles[i].home
            /\ particles'[i].size = particles[i].size
            /\ particles'[i].theta = particles[i].theta
            /\ particles'[i].rand = particles[i].rand]_vars

\* C10 witness: a frame drawn without a rebuild in which particles moved.
C10_Witness ==
  lastOp = "draw" /\ built = 0 /\ frame.moved > 0

====
